---- MODULE Spec2Model ----
(***************************************************************************)
(* Chat-history backend: e-mailed one-time passcodes (loginUser,           *)
(* verifyUser) and the chat handlers (createChat, getAllChats,             *)
(* addConversation, deleteChat) over a shared document store.  Every       *)
(* handler is an async function; each awaited store call is one atomic     *)
(* step and the steps of concurrent requests interleave freely.            *)
(***************************************************************************)
EXTENDS Integers, Sequences, FiniteSets, TLC

\* ---- bounds of the model ----
MaxChats == 2      \* Chat documents ever created
MaxConvs == 2      \* Conversation documents ever created
MaxTokens == 2     \* verification tokens handed to clients
MaxNow == 300001   \* last instant (ms) the clock reaches

\* ---- program constants ----
VerifyExpiresIn == 300       \* "5m", seconds
SessionExpiresIn == 432000   \* "5d", seconds
OtpRange == 1000000          \* Math.random() * 1000000

Procs == {1, 2}              \* request slots: two requests overlap
CallerIds == {1, 2}
Emails == {"a@x.com", "b@x.com"}
Questions == {"hi", "bye"}
Answers == {"hello"}
\* a :id path parameter that is no ObjectId, such as "abc"
MalformedId == -1
\* :id path parameters: every id the store hands out, one it never hands out
\* and a malformed one
ChatIdInputs == (1..(MaxChats + 1)) \cup {MalformedId}

\* instants (ms since the start of the run) the clock visits: the start, the
\* last millisecond before a token signed at the start expires and the first
\* millisecond after its five minutes
Instants ==
  {t \in 0..MaxNow :
     t \in {0, VerifyExpiresIn * 1000 - 1, VerifyExpiresIn * 1000 + 1}}

\* the chat handlers read the clock only for createdAt: two chats are
\* created in the same millisecond or in different ones
ChatInstants == {0, 1}

\* passcodes are JavaScript values; !== compares type and value
Num(n) == [type |-> "number", val |-> n]
Str(n) == [type |-> "string", val |-> n]
NoOtp == [type |-> "undefined", val |-> 0]
\* the passcode drawn; only whether the submitted one is the same matters
OtpDraws == {n \in {7} : n >= 0 /\ n < OtpRange}
\* passcodes submitted: the one drawn, its digits as a string, another one
OtpInputs == {Num(n) : n \in OtpDraws} \cup {Str(7), Num(123456)}

NoUser == [_id |-> 0, email |-> ""]
NoChat == [_id |-> 0, user |-> 0, latestMessage |-> "", createdAt |-> 0]
NoToken == [user |-> NoUser, otp |-> NoOtp, iat |-> 0, exp |-> 0,
            sig |-> "none", signedAt |-> 0]
NoSession == [_id |-> 0, iat |-> 0, exp |-> 0, sig |-> "none"]

VARIABLES
  users,          \* User collection, in insertion order
  nextUserId,     \* next fresh User _id
  chats,          \* Chat collection, in insertion order
  nextChatId,     \* next fresh Chat _id
  conversations,  \* Conversation collection, in insertion order
  issued,         \* verification tokens returned to clients
  verifyLog,      \* issued tokens that a verifyUser call answered "Wrong otp"
  now,            \* wall clock, ms
  req,            \* per request slot: the handler in flight and its locals
  resp            \* the response sent by the step just taken (for getAllChats
                  \* and verifyUser with the inputs of the request); NoResp
                  \* when the step sent none

vars == <<users, nextUserId, chats, nextChatId, conversations, issued,
          verifyLog, now, req, resp>>

\* a free request slot
Idle ==
  [op |-> "idle", pc |-> "idle", caller |-> 0, id |-> 0, question |-> "",
   answer |-> "", email |-> "", chat |-> [_id |-> 0, user |-> 0],
   user |-> NoUser, verifyToken |-> NoToken]

\* no response sent
NoResp ==
  [op |-> "none", caller |-> 0,
   otp |-> NoOtp, verifyToken |-> NoToken, at |-> 0,
   status |-> 0, message |-> "", list |-> <<>>, token |-> NoSession,
   user |-> NoUser]

Init ==
  /\ users = <<>>
  /\ nextUserId = 1
  /\ chats = <<>>
  /\ nextChatId = 1
  /\ conversations = <<>>
  /\ issued = {}
  /\ verifyLog = {}
  /\ now = 0
  /\ req = [p \in Procs |-> Idle]
  /\ resp = NoResp

Free(p) == req[p].pc = "idle"

\* res.status(s).json({message: m}) / res.json(...) of handler op
Respond(op, s, m) ==
  [NoResp EXCEPT !.op = op, !.status = s, !.message = m]

\* time passes: the clock moves on to instant t
Tick(t) ==
  /\ t > now
  /\ now' = t
  /\ UNCHANGED <<users, nextUserId, chats, nextChatId, conversations, issued,
                 verifyLog, req>>
  /\ resp' = NoResp

\* ------------------------------------------------------------------------
\* Chat handlers
\* ------------------------------------------------------------------------

\* Chat.findById(id) rejects with a CastError when id cannot be cast to an
\* ObjectId; the handler's catch answers it
CastError(id) == id = MalformedId

\* Chat.findById(id): the document, or null
FindById(id) ==
  IF \E i \in 1..Len(chats) : chats[i]._id = id
  THEN chats[CHOOSE i \in 1..Len(chats) : chats[i]._id = id]
  ELSE NoChat

\* the fields of a found Chat document that the handlers go on to read
Local(chat) == [_id |-> chat._id, user |-> chat.user]

\* if (!chat)
ChatMissing(chat) == chat = NoChat

\* a new Chat document: a fresh _id, no latestMessage, createdAt stamped
NewChat(u) ==
  [_id |-> nextChatId, user |-> u, latestMessage |-> "", createdAt |-> now]

\* createChat: one await, Chat.create({user: userId}), then res.json(chat)
CreateChat(u) ==
  /\ nextChatId <= MaxChats
  /\ chats' = Append(chats, NewChat(u))
  /\ resp' = Respond("createChat", 200, "")
  /\ nextChatId' = nextChatId + 1
  /\ UNCHANGED <<users, nextUserId, conversations, issued, verifyLog, now,
                 req>>

\* Chat.find({user: u})
OwnedBy(u) == SelectSeq(chats, LAMBDA c : c.user = u)

\* the comparison of an ascending sort, {createdAt: 1}
RECURSIVE InsertAsc(_, _)
InsertAsc(c, s) ==
  IF s = <<>> THEN <<c>>
  ELSE IF Head(s).createdAt <= c.createdAt
       THEN <<Head(s)>> \o InsertAsc(c, Tail(s))
       ELSE <<c>> \o s

RECURSIVE InsertDesc(_, _)
InsertDesc(c, s) ==
  IF s = <<>> THEN <<c>>
  ELSE IF Head(s).createdAt >= c.createdAt
       THEN <<Head(s)>> \o InsertDesc(c, Tail(s))
       ELSE <<c>> \o s

\* .sort({createdAt: -1})
RECURSIVE SortByCreatedAtDesc(_)
SortByCreatedAtDesc(s) ==
  IF s = <<>> THEN <<>>
  ELSE InsertDesc(s[Len(s)], SortByCreatedAtDesc(SubSeq(s, 1, Len(s) - 1)))

\* getAllChats: one query, then res.json(chats)
GetAllChats(u) ==
  /\ resp' = [Respond("getAllChats", 200, "") EXCEPT
                !.caller = u, !.list = SortByCreatedAtDesc(OwnedBy(u))]
  /\ UNCHANGED <<users, nextUserId, chats, nextChatId, conversations, issued,
                 verifyLog, now, req>>

\* Conversation documents about to be created by requests in flight
ConvsPending == Cardinality({q \in Procs : req[q].pc = "addCreate"})

\* addConversation, first await: Chat.findById(req.params.id)
AddConversationFind(p, id, q, a) ==
  /\ Free(p)
  /\ Len(conversations) + ConvsPending < MaxConvs
  /\ LET chat == FindById(id)
     IN IF CastError(id)
        THEN /\ resp' = Respond("addConversation", 500,
                                "Cast to ObjectId failed")
             /\ UNCHANGED req
        ELSE IF ChatMissing(chat)
        THEN /\ resp' = Respond("addConversation", 404,
                                "No chat with this id")
             /\ UNCHANGED req
        ELSE /\ req' = [req EXCEPT ![p] =
                          [Idle EXCEPT !.op = "addConversation",
                                       !.pc = "addCreate", !.id = id,
                                       !.question = q, !.answer = a,
                                       !.chat = Local(chat)]]
             /\ resp' = NoResp
  /\ UNCHANGED <<users, nextUserId, chats, nextChatId, conversations, issued,
                 verifyLog, now>>

\* Does a Chat document with this _id exist right now
ChatExists(id) == \E i \in 1..Len(chats) : chats[i]._id = id

\* addConversation, second await:
\* Conversation.create({chat: chat._id, question, answer})
AddConversationCreate(p) ==
  /\ req[p].pc = "addCreate"
  /\ conversations' =
       Append(conversations,
              [chat |-> req[p].chat._id, question |-> req[p].question,
               answer |-> req[p].answer,
               chatExisted |-> ChatExists(req[p].chat._id)])
  /\ req' = [req EXCEPT ![p].pc = "addUpdate"]
  /\ resp' = NoResp
  /\ UNCHANGED <<users, nextUserId, chats, nextChatId, issued, verifyLog, now>>

\* Chat.findByIdAndUpdate(id, {latestMessage: q}, {new: true})
FindByIdAndUpdate(id, q) ==
  [i \in 1..Len(chats) |->
     IF chats[i]._id = id THEN [chats[i] EXCEPT !.latestMessage = q]
     ELSE chats[i]]

\* addConversation, third await, then res.json({conversation, updatedChat})
AddConversationUpdate(p) ==
  /\ req[p].pc = "addUpdate"
  /\ chats' = FindByIdAndUpdate(req[p].id, req[p].question)
  /\ resp' = Respond("addConversation", 200, "")
  /\ req' = [req EXCEPT ![p] = Idle]
  /\ UNCHANGED <<users, nextUserId, nextChatId, conversations, issued,
                 verifyLog, now>>

\* an ownership check that lets every caller through
NotOwnerNever(chat, u) == FALSE

\* chat.user.toString() !== req.user._id.toString()
NotOwner(chat, u) == chat.user # u

\* deleteChat, first await: Chat.findById(req.params.id), then the two checks
DeleteChatFind(p, id, u) ==
  /\ Free(p)
  /\ LET chat == FindById(id)
     IN IF CastError(id)
        THEN /\ resp' = Respond("deleteChat", 500, "Cast to ObjectId failed")
             /\ UNCHANGED req
        ELSE IF ChatMissing(chat)
        THEN /\ resp' = Respond("deleteChat", 404, "No chat with this id")
             /\ UNCHANGED req
        ELSE IF NotOwner(chat, u)
        THEN /\ resp' = Respond("deleteChat", 403, "Unauthorized")
             /\ UNCHANGED req
        ELSE /\ req' = [req EXCEPT ![p] =
                          [Idle EXCEPT !.op = "deleteChat", !.pc = "delete",
                                       !.id = id, !.caller = u,
                                       !.chat = Local(chat)]]
             /\ resp' = NoResp
  /\ UNCHANGED <<users, nextUserId, chats, nextChatId, conversations, issued,
                 verifyLog, now>>

\* chat.deleteOne(): removes the document with this _id, if still there
DeleteOne(chat) == SelectSeq(chats, LAMBDA c : c._id # chat._id)

\* deleteChat, second await, then res.json({message: "Chat Deleted"})
DeleteChatDelete(p) ==
  /\ req[p].pc = "delete"
  /\ chats' = DeleteOne(req[p].chat)
  /\ resp' = Respond("deleteChat", 200, "Chat Deleted")
  /\ req' = [req EXCEPT ![p] = Idle]
  /\ UNCHANGED <<users, nextUserId, nextChatId, conversations, issued,
                 verifyLog, now>>

\* the handlers that write the store, within one millisecond; what is asked
\* plays no part in deleting and in the lookups, so every turn asks the same
NextStore ==
  \/ \E u \in CallerIds : CreateChat(u)
  \/ \E p \in Procs, id \in ChatIdInputs, a \in Answers :
       AddConversationFind(p, id, "hi", a)
  \/ \E p \in Procs : AddConversationCreate(p)
  \/ \E p \in Procs : AddConversationUpdate(p)
  \/ \E p \in Procs, id \in ChatIdInputs, u \in CallerIds :
       DeleteChatFind(p, id, u)
  \/ \E p \in Procs : DeleteChatDelete(p)

SpecStore == Init /\ [][NextStore]_vars

\* the same handlers, with turns that ask different questions
NextTurns ==
  \/ \E u \in CallerIds : CreateChat(u)
  \/ \E p \in Procs, id \in ChatIdInputs, q \in Questions, a \in Answers :
       AddConversationFind(p, id, q, a)
  \/ \E p \in Procs : AddConversationCreate(p)
  \/ \E p \in Procs : AddConversationUpdate(p)
  \/ \E p \in Procs, id \in ChatIdInputs, u \in CallerIds :
       DeleteChatFind(p, id, u)
  \/ \E p \in Procs : DeleteChatDelete(p)

SpecTurns == Init /\ [][NextTurns]_vars

\* the writing handlers, the listing and the clock; listings, creations and
\* refused lookups fall between the steps of one addConversation or
\* deleteChat call at a time
NextChat ==
  \/ \E t \in ChatInstants : Tick(t)
  \/ \E u \in CallerIds : CreateChat(u)
  \/ \E u \in CallerIds : GetAllChats(u)
  \/ \E p \in {1}, id \in ChatIdInputs, a \in Answers :
       AddConversationFind(p, id, "hi", a)
  \/ \E p \in {1} : AddConversationCreate(p)
  \/ \E p \in {1} : AddConversationUpdate(p)
  \/ \E p \in {1}, id \in ChatIdInputs, u \in CallerIds :
       DeleteChatFind(p, id, u)
  \/ \E p \in {1} : DeleteChatDelete(p)

SpecChat == Init /\ [][NextChat]_vars

\* ------------------------------------------------------------------------
\* Authentication handlers
\* ------------------------------------------------------------------------

\* User.findOne({email}): the document, or null
FindOne(email) ==
  IF \E i \in 1..Len(users) : users[i].email = email
  THEN users[CHOOSE i \in 1..Len(users) : users[i].email = email]
  ELSE NoUser

\* an email field without a unique index: no insert is ever refused
DuplicateKeyNever(email) == FALSE

\* the unique index on User.email refuses a second document with the email
DuplicateKey(email) == \E i \in 1..Len(users) : users[i].email = email

\* jwt.sign({user, otp}, Activation_sec, {expiresIn: "5m"});
\* signedAt is the instant of signing, which the token itself does not carry
SignVerifyToken(user, otp) ==
  [user |-> user, otp |-> Num(otp), iat |-> now \div 1000,
   exp |-> (now \div 1000) + VerifyExpiresIn, sig |-> "Activation_sec",
   signedAt |-> now]

\* verification tokens signed for requests still in flight
TokensPending == Cardinality({q \in Procs : req[q].op = "loginUser"})

\* loginUser, first await: User.findOne({email}); a known user goes straight
\* on to the passcode, the token and the call of sendMail
LoginFind(p, email, otp) ==
  /\ Free(p)
  /\ Cardinality(issued) + TokensPending < MaxTokens
  /\ LET user == FindOne(email)
         r == [Idle EXCEPT !.op = "loginUser", !.email = email]
     IN req' = [req EXCEPT ![p] =
                  IF user = NoUser
                  THEN [r EXCEPT !.pc = "create"]
                  ELSE [r EXCEPT !.pc = "send", !.user = user,
                                 !.verifyToken = SignVerifyToken(user, otp)]]
  /\ resp' = NoResp
  /\ UNCHANGED <<users, nextUserId, chats, nextChatId, conversations, issued,
                 verifyLog, now>>

\* loginUser, second await: User.create({email}), then the passcode, the
\* token and the call of sendMail; a refused insert is answered by the catch
LoginCreate(p, otp) ==
  /\ req[p].pc = "create"
  /\ IF DuplicateKey(req[p].email)
     THEN /\ resp' = Respond("loginUser", 500, "E11000 duplicate key error")
          /\ req' = [req EXCEPT ![p] = Idle]
          /\ UNCHANGED <<users, nextUserId>>
     ELSE LET user == [_id |-> nextUserId, email |-> req[p].email]
          IN /\ users' = Append(users, user)
             /\ nextUserId' = nextUserId + 1
             /\ req' = [req EXCEPT ![p].pc = "send", ![p].user = user,
                                   ![p].verifyToken =
                                     SignVerifyToken(user, otp)]
             /\ resp' = NoResp
  /\ UNCHANGED <<chats, nextChatId, conversations, issued, verifyLog, now>>

\* loginUser, third await: sendMail(email, "ChatBot", otp) resolves or throws
LoginSend(p, delivered) ==
  /\ req[p].pc = "send"
  /\ IF delivered
     THEN /\ resp' = Respond("loginUser", 200, "Otp send to your mail")
          /\ issued' = issued \cup {req[p].verifyToken}
     ELSE /\ resp' = Respond("loginUser", 500,
                             "Failed to send email via Brevo API")
          /\ UNCHANGED issued
  /\ req' = [req EXCEPT ![p] = Idle]
  /\ UNCHANGED <<users, nextUserId, chats, nextChatId, conversations,
                 verifyLog, now>>

\* an expiry test that still accepts the token during its expiry second
JwtExpiredLate(token, t) == t \div 1000 > token.exp

\* jsonwebtoken: clockTimestamp >= payload.exp throws TokenExpiredError
JwtExpired(token, t) == t \div 1000 >= token.exp

\* a verification that tests the expiry but not the signature
JwtVerifiesUnsigned(token, t) ==
  /\ token # NoToken
  /\ ~JwtExpired(token, t)

\* a verification that accepts a token for one answered attempt only
JwtVerifiesOnce(token, t) ==
  /\ token # NoToken
  /\ token.sig = "Activation_sec"
  /\ ~JwtExpired(token, t)
  /\ token \notin verifyLog

\* jwt.verify(verifyToken, Activation_sec) returns the payload; it throws on
\* a missing token, a bad signature or an expired token
JwtVerifies(token, t) ==
  /\ token # NoToken
  /\ token.sig = "Activation_sec"
  /\ ~JwtExpired(token, t)

\* a comparison that converts the operands, !=
OtpMismatchLoose(verify, otp) == verify.otp.val # otp.val

\* verify.otp !== otp
OtpMismatch(verify, otp) == verify.otp # otp

\* jwt.sign({_id: verify.user._id}, Jwt_sec, {expiresIn: "5d"})
SignSessionToken(verify) ==
  [_id |-> verify.user._id, iat |-> now \div 1000,
   exp |-> (now \div 1000) + SessionExpiresIn, sig |-> "Jwt_sec"]

\* tokens a client can submit: the ones it was sent, the same with a
\* signature made without the secret, and none at all
VerifyTokenInputs ==
  issued \cup {[t EXCEPT !.sig = "forged"] : t \in issued} \cup {NoToken}

\* verifyUser: no await; jwt.verify throws into the catch, so the
\* `if (!verify)` answer "Otp Expired" is never sent
VerifyUser(otp, verifyToken) ==
  /\ LET r == [NoResp EXCEPT !.op = "verifyUser", !.otp = otp,
                             !.verifyToken = verifyToken, !.at = now]
     IN resp' =
          IF ~JwtVerifies(verifyToken, now)
          THEN [r EXCEPT !.status = 500, !.message = "jwt error"]
          ELSE IF OtpMismatch(verifyToken, otp)
          THEN [r EXCEPT !.status = 400, !.message = "Wrong otp"]
          ELSE [r EXCEPT !.status = 200,
                         !.message = "Logged in successfully",
                         !.user = verifyToken.user,
                         !.token = SignSessionToken(verifyToken)]
  /\ verifyLog' =
       IF verifyToken \in issued /\ resp'.status = 400
       THEN verifyLog \cup {verifyToken} ELSE verifyLog
  /\ UNCHANGED <<users, nextUserId, chats, nextChatId, conversations, issued,
                 now, req>>

NextAuth ==
  \/ \E t \in Instants : Tick(t)
  \/ \E p \in Procs, e \in Emails, o \in OtpDraws : LoginFind(p, e, o)
  \/ \E p \in Procs, o \in OtpDraws : LoginCreate(p, o)
  \/ \E p \in Procs, d \in BOOLEAN : LoginSend(p, d)
  \/ \E o \in OtpInputs, t \in VerifyTokenInputs : VerifyUser(o, t)

SpecAuth == Init /\ [][NextAuth]_vars

\* ------------------------------------------------------------------------
\* Properties of the chat handlers
\* ------------------------------------------------------------------------

\* question of the Conversation created last for chat id, "" when there is none
RECURSIVE LastQuestion(_, _)
LastQuestion(id, convs) ==
  IF convs = <<>> THEN ""
  ELSE IF convs[Len(convs)].chat = id THEN convs[Len(convs)].question
       ELSE LastQuestion(id, SubSeq(convs, 1, Len(convs) - 1))

AddInFlight(id) ==
  \E p \in Procs : req[p].op = "addConversation" /\ req[p].id = id

\* C1: whenever no addConversation call on an existing Chat c is in flight,
\* c.latestMessage is the question of the Conversation created last for c,
\* and is empty when no Conversation was created for c.
C1_LatestMessageIsLastQuestion ==
  \A i \in 1..Len(chats) :
    ~AddInFlight(chats[i]._id) =>
      chats[i].latestMessage = LastQuestion(chats[i]._id, conversations)

\* C7: every Conversation in the store was created while the Chat it
\* references was in the store.
C7_ConversationChatExistedAtCreation ==
  \A k \in 1..Len(conversations) : conversations[k].chatExisted

\* C5: a deleteChat call on an existing Chat by a caller who is not its owner
\* is answered 403 "Unauthorized" in a step that leaves the Chat and
\* Conversation collections as they were (the Chat is still listed for its
\* owner) and starts no delete step, and a Chat leaves the store only in the
\* delete step of a deleteChat call made by its owner.
C5_NonOwnerDeleteRejected ==
  [][ /\ \A p \in Procs, id \in ChatIdInputs, u \in CallerIds :
           ( /\ DeleteChatFind(p, id, u)
             /\ ChatExists(id)
             /\ \E i \in 1..Len(chats) :
                  chats[i]._id = id /\ chats[i].user # u )
           => /\ resp'.op = "deleteChat"
              /\ resp'.status = 403
              /\ resp'.message = "Unauthorized"
              /\ chats' = chats
              /\ conversations' = conversations
              /\ req' = req
              /\ \E i \in 1..Len(chats) :
                   /\ chats[i]._id = id
                   /\ LET l == SortByCreatedAtDesc(OwnedBy(chats[i].user))
                      IN \E k \in 1..Len(l) : l[k] = chats[i]
      /\ \A i \in 1..Len(chats) :
           (~\E j \in 1..Len(chats') : chats'[j]._id = chats[i]._id)
             => \E p \in Procs :
                  /\ req[p].op = "deleteChat" /\ req[p].pc = "delete"
                  /\ req[p].id = chats[i]._id
                  /\ req[p].caller = chats[i].user
                  /\ req'[p] = Idle
                  /\ resp'.op = "deleteChat" /\ resp'.status = 200
    ]_vars

\* a caller was just refused a delete while both users own a chat and a turn
\* has been appended
C5_Witness ==
  /\ resp.op = "deleteChat" /\ resp.status = 403
  /\ \E i, j \in 1..Len(chats) : chats[i].user # chats[j].user
  /\ conversations # <<>>

\* C6: an addConversation call whose chat id resolves to no Chat is answered
\* 404 "No chat with this id" in a step that creates no Conversation, changes
\* no Chat and starts no create step.
C6_AddConversationMissingChat ==
  [][ \A p \in Procs, id \in ChatIdInputs, q \in Questions, a \in Answers :
        (AddConversationFind(p, id, q, a) /\ ~ChatExists(id))
        => /\ resp'.op = "addConversation"
           /\ resp'.status = 404
           /\ resp'.message = "No chat with this id"
           /\ conversations' = conversations
           /\ chats' = chats
           /\ req' = req
    ]_vars

\* C8: the list getAllChats answers with holds exactly the Chats of the store
\* owned by the caller, each once, newest first.
C8_ListChatsExactAndNewestFirst ==
  resp.op = "getAllChats" =>
    LET l == resp.list
        u == resp.caller
    IN /\ \A k \in 1..Len(l) :
            /\ l[k].user = u
            /\ \E i \in 1..Len(chats) : chats[i] = l[k]
       /\ \A i \in 1..Len(chats) :
            chats[i].user = u => \E k \in 1..Len(l) : l[k] = chats[i]
       /\ \A j, k \in 1..Len(l) : j # k => l[j]._id # l[k]._id
       /\ \A j, k \in 1..Len(l) : j < k => l[j].createdAt >= l[k].createdAt

\* a list of two chats created at different instants, after a conversation
\* turn was appended to the older one
C8_Witness ==
  /\ resp.op = "getAllChats"
  /\ Len(resp.list) = 2
  /\ resp.list[1].createdAt > resp.list[2].createdAt
  /\ resp.list[2].latestMessage # ""

\* ------------------------------------------------------------------------
\* Properties of the authentication handlers
\* ------------------------------------------------------------------------

\* C2: for every email the User collection holds at most one document with
\* that email, however the steps of loginUser calls interleave.
C2_AtMostOneUserPerEmail ==
  \A e \in Emails :
    Cardinality({i \in 1..Len(users) : users[i].email = e}) <= 1

\* two loginUser calls for one unseen email both missed it in their lookup;
\* the insert of the second was just refused
C2_Witness ==
  /\ resp.op = "loginUser" /\ resp.status = 500
  /\ resp.message = "E11000 duplicate key error"
  /\ Len(users) = 1

\* the submitted token carries a passcode and it is not the submitted one
Mismatch ==
  /\ resp.op = "verifyUser"
  /\ resp.verifyToken # NoToken
  /\ resp.verifyToken.otp # resp.otp

\* the submitted token is signed with the secret and its expiry second has
\* not begun when the call is made
ValidUnexpired ==
  /\ resp.verifyToken.sig = "Activation_sec"
  /\ resp.at \div 1000 < resp.verifyToken.iat + VerifyExpiresIn

WrongOtpAnswer ==
  /\ resp.status = 400
  /\ resp.message = "Wrong otp"
  /\ resp.token = NoSession

\* C3 as stated: every verifyUser call whose passcode differs from the one
\* embedded in the submitted token is answered 400 "Wrong otp", whatever the
\* state of the token (taken here for the tokens loginUser issued only).
C3_MismatchAlwaysWrongOtp ==
  (Mismatch /\ resp.verifyToken \in issued) => WrongOtpAnswer

\* C3 amended: every verifyUser call whose token is validly signed and
\* unexpired and whose passcode differs from the embedded one is answered
\* 400 "Wrong otp" and gets no session token; with an expired or badly
\* signed token the same call is answered by the catch, 500, and gets no
\* session token either.
C3_MismatchOnValidTokenWrongOtp ==
  /\ (Mismatch /\ ValidUnexpired) => WrongOtpAnswer
  /\ (Mismatch /\ ~ValidUnexpired) =>
       (resp.status = 500 /\ resp.token = NoSession)

\* the digits of the embedded passcode, submitted as a string, were refused
\* in the last millisecond of the token's validity
C3_Witness ==
  /\ Mismatch /\ ValidUnexpired
  /\ resp.otp.val = resp.verifyToken.otp.val
  /\ resp.at > resp.verifyToken.signedAt
  /\ resp.status = 400

\* C4: a verifyUser call made more than five minutes after loginUser signed
\* the submitted token fails and gets no session token, also with the right
\* passcode.
C4_ExpiredTokenRejected ==
  ( /\ resp.op = "verifyUser"
    /\ resp.verifyToken.sig = "Activation_sec"
    /\ resp.at > resp.verifyToken.signedAt + VerifyExpiresIn * 1000 )
  => /\ resp.status >= 400
     /\ resp.token = NoSession
     /\ resp.user = NoUser

\* the right passcode was just submitted with a token older than 5 minutes
C4_Witness ==
  /\ resp.op = "verifyUser"
  /\ resp.verifyToken \in issued
  /\ resp.at > resp.verifyToken.signedAt + VerifyExpiresIn * 1000
  /\ resp.otp = resp.verifyToken.otp

\* C9: a response carries a session token only if it answers a verifyUser
\* call whose token loginUser issued, validly signed and unexpired, and whose
\* passcode is the embedded one; the session token then embeds the _id of
\* the user embedded in that token, with a 5-day window, and the user
\* returned is that embedded user.  No other response carries a session
\* token or a user.
C9_SessionTokenOnlyOnVerifiedPasscode ==
  /\ resp.token # NoSession =>
       /\ resp.op = "verifyUser"
       /\ resp.status = 200
       /\ resp.verifyToken \in issued
       /\ ValidUnexpired
       /\ resp.otp = resp.verifyToken.otp
       /\ resp.token._id = resp.verifyToken.user._id
       /\ resp.token.sig = "Jwt_sec"
       /\ resp.token.exp = resp.token.iat + SessionExpiresIn
       /\ resp.user = resp.verifyToken.user
       /\ \E i \in 1..Len(users) : users[i] = resp.user
  /\ resp.status # 200 => (resp.token = NoSession /\ resp.user = NoUser)
  /\ resp.op # "verifyUser" => (resp.token = NoSession /\ resp.user = NoUser)

\* a session token was just issued for the second user of the store
C9_Witness ==
  /\ resp.token # NoSession
  /\ resp.token._id = 2
  /\ resp.at > 0

\* C10: a verifyUser step changes neither the store nor the set of usable
\* tokens nor any request in flight, and a call with an issued, unexpired
\* token and its embedded passcode succeeds with a session token whatever
\* attempts were answered before.
C10_VerifyStatelessAndRepeatable ==
  [][ resp'.op = "verifyUser" =>
        /\ UNCHANGED <<users, nextUserId, chats, nextChatId, conversations,
                       issued, now, req>>
        /\ ( /\ resp'.verifyToken \in issued
             /\ resp'.at \div 1000 < resp'.verifyToken.exp
             /\ resp'.otp = resp'.verifyToken.otp )
           => /\ resp'.status = 200
              /\ resp'.token # NoSession
              /\ resp'.token._id = resp'.verifyToken.user._id
    ]_vars

\* a call succeeded with a token that an earlier call had answered
\* "Wrong otp"
C10_Witness ==
  /\ resp.op = "verifyUser" /\ resp.status = 200
  /\ resp.verifyToken \in verifyLog

====
